---------------------------- MODULE Spec2Model ----------------------------
(***************************************************************************)
(* Model of crop.py: the Sonarr/Radarr post-import hook that decides       *)
(* whether a video needs cropping and crops it with ffmpeg.                *)
(*                                                                         *)
(* Text is modelled as a sequence of character codes: the digits '0'..'9'  *)
(* are 0..9 and ':' is 10, which keeps the byte order of ASCII (':' sorts  *)
(* after '9').                                                             *)
(***************************************************************************)
EXTENDS Integers, Sequences, FiniteSets, TLC

VARIABLES
    \* the process environment and the file system the script runs against
    sonarr_eventtype, radarr_eventtype, fs,
    \* sonarr_main's locals
    show_database, event_is, name, season, database_results, width, height,
    already_croped, crop_cmd, possible_crops,
    \* check_video_resolution's current_width and current_height
    current,
    \* what the invocation before this one saw (<<>> in the first invocation)
    prev,
    \* position in the script, process exit status (<<>> while running)
    pc, exit_status,
    \* observable effects: the two log files, stdout, the tools run in order
    error_log, info_log, stdout, calls,
    \* the paths the tools were given, each with what the tool does to it
    touched,
    \* crop_video run by several invocations on one destination: each one's
    \* position and tools, the destination file, whether the caller lets only
    \* one crop at a time be in flight, and the deletes that hit another
    \* invocation's output
    cv, dest, one_in_flight, hazard,
    \* Tolerance Comparator applied on its own: arguments and result
    cmp_cur, cmp_tgt, cmp_tol, cmp_out,
    \* get_crop_parameters applied on its own: cropdetect lines, status, result
    det_lines, det_rc, det_out

vars == <<sonarr_eventtype, radarr_eventtype, fs, show_database, event_is, name,
          season, database_results, width, height, already_croped, crop_cmd,
          possible_crops, current, prev, pc, exit_status,
          error_log, info_log, stdout, calls, touched,
          cv, dest, one_in_flight, hazard,
          cmp_cur, cmp_tgt, cmp_tol, cmp_out, det_lines, det_rc, det_out>>

mainVars == <<sonarr_eventtype, radarr_eventtype, fs, show_database, event_is,
              name, season, database_results, width, height, already_croped,
              crop_cmd, possible_crops, current, prev, pc, exit_status,
              error_log, info_log, stdout, calls, touched>>
concVars == <<cv, dest, one_in_flight, hazard>>
cmpVars == <<cmp_cur, cmp_tgt, cmp_tol, cmp_out>>
detVars == <<det_lines, det_rc, det_out>>

---------------------------------------------------------------------------
(* Bounds of the model *)

\* frame sizes are DimStep, 2*DimStep, ..., MaxDim*DimStep pixels
MaxDim == 3
DimStep == 9
\* rows in the override table
MaxRows == 2
\* crop= lines the detection run reports
MaxCand == 3
\* the comparator on its own: sizes 1..MaxPix, tolerances 0..MaxTol
MaxPix == 4
MaxTol == 3

\* rel_tol = 18
rel_tol == 18

Dims == {d * DimStep : d \in 1..MaxDim}

\* subprocess returncode: 0 success, > 0 the tool's own failure status,
\* < 0 the child was ended by a signal
RetCodes == {-9, 0, 1}

---------------------------------------------------------------------------
(* Python values and text *)

Colon == 10

Abs(x) == IF x < 0 THEN 0 - x ELSE x

\* str(n) for n >= 0: the decimal digits
RECURSIVE Str(_)
Str(n) == IF n < 10 THEN <<n>> ELSE Str(n \div 10) \o <<n % 10>>

\* int(s) for a string of digits
RECURSIVE ParseInt(_)
ParseInt(s) ==
    IF Len(s) = 1 THEN s[1]
    ELSE 10 * ParseInt(SubSeq(s, 1, Len(s) - 1)) + s[Len(s)]

\* a value that is either a number (a numpy integer read from the table) or
\* text (a field of the detection output)
PyInt(n) == [ty |-> "int", int |-> n, str |-> <<>>]
PyStr(s) == [ty |-> "str", int |-> 0, str |-> s]
None == [ty |-> "none", int |-> 0, str |-> <<>>]

\* int(x)
ToInt(x) == IF x.ty = "int" THEN x.int ELSE ParseInt(x.str)
\* f"{x}"
Format(x) == IF x.ty = "int" THEN Str(x.int) ELSE x.str

\* s.split(":")
RECURSIVE Split(_)
Split(s) ==
    IF \A i \in 1..Len(s) : s[i] # Colon THEN <<s>>
    ELSE LET k == CHOOSE i \in 1..Len(s) :
                      s[i] = Colon /\ \A j \in 1..(i - 1) : s[j] # Colon
         IN <<SubSeq(s, 1, k - 1)>> \o Split(SubSeq(s, k + 1, Len(s)))

---------------------------------------------------------------------------
(* Tolerance Comparator: the condition of check_video_resolution, with the *)
(* global rel_tol as the parameter tol                                     *)

isAcceptable_or(tw, th, cw, ch, tol) ==
    Abs(tw - cw) < tol \/ Abs(th - ch) < tol

isAcceptable_leq(tw, th, cw, ch, tol) ==
    Abs(tw - cw) <= tol /\ Abs(th - ch) <= tol

isAcceptable_noabs(tw, th, cw, ch, tol) ==
    (tw - cw) < tol /\ Abs(th - ch) < tol

isAcceptable(tw, th, cw, ch, tol) ==
    Abs(tw - cw) < tol /\ Abs(th - ch) < tol


\* the comparator applied to arguments of its own
CmpInit ==
    /\ cmp_cur \in (1..MaxPix) \X (1..MaxPix)
    /\ cmp_tgt \in (1..MaxPix) \X (1..MaxPix)
    /\ cmp_tol \in 0..MaxTol
    /\ cmp_out = <<>>

CmpIdle ==
    /\ cmp_cur = <<1, 1>>
    /\ cmp_tgt = <<1, 1>>
    /\ cmp_tol = rel_tol
    /\ cmp_out = <<>>

\* isAcceptable(current, target, tolerance)
CmpCall ==
    /\ cmp_out = <<>>
    /\ cmp_out' = <<isAcceptable(cmp_tgt[1], cmp_tgt[2],
                                 cmp_cur[1], cmp_cur[2], cmp_tol)>>
    /\ UNCHANGED <<cmp_cur, cmp_tgt, cmp_tol, mainVars, detVars>>
    /\ UNCHANGED concVars

\* the same call with current and target exchanged
CmpSwapCall ==
    /\ Len(cmp_out) = 1
    /\ cmp_cur' = cmp_tgt
    /\ cmp_tgt' = cmp_cur
    /\ cmp_out' = Append(cmp_out, isAcceptable(cmp_tgt'[1], cmp_tgt'[2],
                                               cmp_cur'[1], cmp_cur'[2],
                                               cmp_tol))
    /\ UNCHANGED <<cmp_tol, mainVars, detVars>>
    /\ UNCHANGED concVars

---------------------------------------------------------------------------
(* Crop Detector: the shell pipeline of get_crop_parameters and the Python *)
(* that reads its output                                                   *)

\* byte order of two texts (the last-resort comparison of sort)
LexLess(a, b) ==
    \/ /\ Len(a) < Len(b)
       /\ \A i \in 1..Len(a) : a[i] = b[i]
    \/ \E i \in 1..Len(a) :
          /\ i <= Len(b)
          /\ a[i] < b[i]
          /\ \A j \in 1..(i - 1) : a[j] = b[j]

\* a line as sort -bh reads it: the number it starts with after blanks (0
\* when it starts with none, as "crop=..." does) and the text after it
TextLine(n, t) == [num |-> n, text |-> t]

\* sort -bh: by leading number, then by the bytes of the whole line
BHLess(a, b) ==
    \/ a.num < b.num
    \/ a.num = b.num /\ LexLess(a.text, b.text)

RECURSIVE BHInsert(_, _)
BHInsert(x, s) ==
    IF s = <<>> THEN <<x>>
    ELSE IF BHLess(x, Head(s)) THEN <<x>> \o s
    ELSE <<Head(s)>> \o BHInsert(x, Tail(s))

RECURSIVE SortBH(_)
SortBH(s) == IF s = <<>> THEN <<>> ELSE BHInsert(Head(s), SortBH(Tail(s)))

\* uniq -c: each run of equal adjacent lines becomes "<count> <line>"
RECURSIVE UniqC(_)
UniqC(s) ==
    IF s = <<>> THEN <<>>
    ELSE LET run == CHOOSE k \in 1..Len(s) :
                        /\ \A i \in 1..k : s[i] = s[1]
                        /\ k < Len(s) => s[k + 1] # s[1]
         IN <<TextLine(run, s[1].text)>> \o UniqC(SubSeq(s, run + 1, Len(s)))

\* tail -n1
TailN1_head(s) == IF s = <<>> THEN <<>> ELSE <<s[1]>>

TailN1(s) == IF s = <<>> THEN <<>> ELSE <<s[Len(s)]>>

\* grep -o crop=.* | sed 's/.*crop=//g': the text after "crop="
StripCrop(s) == [i \in 1..Len(s) |-> s[i].text]

\* grep -o crop=.* | sort -bh | uniq -c | sort -bh | tail -n1 | grep | sed,
\* on the crop= lines ffmpeg reported, in the order it reported them
Pipeline(lines) ==
    StripCrop(TailN1(SortBH(UniqC(SortBH(
        [i \in 1..Len(lines) |-> TextLine(0, lines[i])])))))

\* list.count(x)
Count(list, x) == Cardinality({i \in 1..Len(list) : list[i] = x})

\* max(list, key=list.count): the first element with the greatest count
PyMax(list) ==
    list[CHOOSE i \in 1..Len(list) :
            /\ \A j \in 1..Len(list) :
                  Count(list, list[j]) <= Count(list, list[i])
            /\ \A j \in 1..(i - 1) :
                  Count(list, list[j]) < Count(list, list[i])]

\* a get_crop_parameters that answers an empty list with a 0:0 crop
GetCropParameters_default(lines, rc) ==
    IF rc > 0
    THEN [kind |-> "exit", crops |-> <<>>, width |-> None, height |-> None]
    ELSE LET splitlines == Pipeline(lines)
         IN IF splitlines = <<>>
            THEN [kind |-> "return", crops |-> splitlines,
                  width |-> PyStr(<<0>>), height |-> PyStr(<<0>>)]
            ELSE LET crop == PyMax(splitlines)
                     parts == Split(crop)
                 IN IF Len(parts) # 4
                    THEN [kind |-> "raise", crops |-> splitlines,
                          width |-> None, height |-> None]
                    ELSE [kind |-> "return", crops |-> splitlines,
                          width |-> PyStr(parts[1]), height |-> PyStr(parts[2])]

\* the outcome of get_crop_parameters for a detection run that reported
\* `lines` and ended with status rc: "exit" (status > 0: print and exit(1)),
\* "raise" (max() of an empty list, or a crop that does not split in four)
\* or "return" with width and height; crops is the list possible_crops
GetCropParameters(lines, rc) ==
    IF rc > 0
    THEN [kind |-> "exit", crops |-> <<>>, width |-> None, height |-> None]
    ELSE LET splitlines == Pipeline(lines)
         IN IF splitlines = <<>>
            THEN [kind |-> "raise", crops |-> splitlines,
                  width |-> None, height |-> None]
            ELSE LET crop == PyMax(splitlines)
                     parts == Split(crop)
                 IN IF Len(parts) # 4
                    THEN [kind |-> "raise", crops |-> splitlines,
                          width |-> None, height |-> None]
                    ELSE [kind |-> "return", crops |-> splitlines,
                          width |-> PyStr(parts[1]), height |-> PyStr(parts[2])]

\* a crop= line of ffmpeg's cropdetect: W:H:X:Y
CropLine(w, h, x, y) ==
    Str(w) \o <<Colon>> \o Str(h) \o <<Colon>> \o Str(x) \o <<Colon>> \o Str(y)

\* the full frame is Full x Full; a frame with bars is Full wide and less
\* high (letterbox) or Full high and less wide (pillarbox)
Full == MaxDim * DimStep
Rects == {<<Full, h>> : h \in Dims} \cup {<<w, Full>> : w \in Dims}

\* the lines a detection run may report: the picture centred in the frame
CropLines == {CropLine(r[1], r[2], (Full - r[1]) \div 2, (Full - r[2]) \div 2) :
                  r \in Rects}

RECURSIVE SeqsUpTo(_, _)
SeqsUpTo(S, n) ==
    IF n = 0 THEN {<<>>}
    ELSE LET shorter == SeqsUpTo(S, n - 1)
         IN shorter \cup {Append(s, x) : s \in shorter, x \in S}

CandSeqs == SeqsUpTo(CropLines, MaxCand)

\* get_crop_parameters applied to a detection run of its own
DetInit ==
    /\ det_lines \in CandSeqs
    /\ det_rc \in RetCodes
    /\ det_out = <<>>

DetIdle ==
    /\ det_lines = <<>>
    /\ det_rc = 0
    /\ det_out = <<>>

DetCall ==
    /\ det_out = <<>>
    /\ det_out' = <<GetCropParameters(det_lines, det_rc)>>
    /\ UNCHANGED <<det_lines, det_rc, mainVars, cmpVars>>
    /\ UNCHANGED concVars

---------------------------------------------------------------------------
(* crop_video run by concurrent invocations on the same destination        *)

\* the invocations
NumProcs == 2
Procs == 1..NumProcs

\* no concurrent crop_video is being looked at
ConcIdle ==
    /\ cv = <<>>
    /\ dest = [state |-> "original", by |-> 0]
    /\ one_in_flight = FALSE
    /\ hazard = {}

---------------------------------------------------------------------------
(* The script: __main__, sonarr_main, check_video_resolution, crop_video   *)

\* values of the sonarr_eventtype / radarr_eventtype environment variables
\* ("None": not set)
EventValues == {"None", "Download", "Test"}

\* rows of TVDB.csv: Series, Season, Horizontal, Vertical
Row(t, n, r) == [Series |-> t, Season |-> n, Horizontal |-> r[1],
                 Vertical |-> r[2]]
Rows == {Row("A", 1, <<Full, DimStep>>), Row("A", 1, <<Full - DimStep, Full>>),
         Row("A", 2, <<Full, DimStep>>), Row("B", 1, <<Full, DimStep>>)}
Tables == SeqsUpTo(Rows, MaxRows)

\* sonarr_series_title and sonarr_episodefile_seasonnumber of the event
EventKeys == {<<"A", <<1>>>>}

\* os.getenv(variable, False) for a variable that is not set: a title False
\* equals no Series, and int(False) is 0, the number the text "0" reads as
UnsetKey == <<"False", <<0>>>>

\* the Sonarr fields sonarr_main finds: Sonarr sets them with its event type
SonarrFields == IF sonarr_eventtype = "None" THEN {UnsetKey} ELSE EventKeys

\* what ffprobe prints: the first video stream's size, or nothing json.loads
\* and ["streams"][0] can read
ProbeOutputs == {<<"size", r>> : r \in Rects} \cup {<<"unreadable", <<0, 0>>>>}

\* df[(df["Series"] == name) & (df["Season"] == int(season))]
SelectRows_any(db, nm, sn) ==
    LET hit(i) == db[i].Series = nm \/ db[i].Season = ParseInt(sn)
        RECURSIVE Sel(_)
        Sel(i) == IF i > Len(db) THEN <<>>
                  ELSE (IF hit(i) THEN <<db[i]>> ELSE <<>>) \o Sel(i + 1)
    IN Sel(1)

SelectRows(db, nm, sn) ==
    LET hit(i) == db[i].Series = nm /\ db[i].Season = ParseInt(sn)
        RECURSIVE Sel(_)
        Sel(i) == IF i > Len(db) THEN <<>>
                  ELSE (IF hit(i) THEN <<db[i]>> ELSE <<>>) \o Sel(i + 1)
    IN Sel(1)

Init ==
    /\ sonarr_eventtype \in EventValues
    /\ radarr_eventtype \in EventValues
    /\ fs \in [src : {"present", "missing"}, dst : {"original", "missing"}]
    /\ show_database = <<>>
    /\ event_is = ""
    /\ name = ""
    /\ season = <<>>
    /\ database_results = <<>>
    /\ width = None
    /\ height = None
    /\ already_croped = <<>>
    /\ crop_cmd = <<>>
    /\ possible_crops = <<>>
    /\ current = <<>>
    /\ prev = <<>>
    /\ pc = "main"
    /\ exit_status = <<>>
    /\ error_log = <<>>
    /\ info_log = <<>>
    /\ stdout = <<>>
    /\ calls = <<>>
    /\ touched = {}
    /\ ConcIdle
    /\ CmpIdle
    /\ DetIdle

\* exit(code); an uncaught exception ends the interpreter with status 1
Exit(code) ==
    /\ pc' = "exited"
    /\ exit_status' = <<code>>

Call(tool, rc) == [tool |-> tool, rc |-> rc]

\* __main__, a Test event
MainTest ==
    /\ pc = "main"
    /\ "Test" \in {sonarr_eventtype, radarr_eventtype}
    /\ info_log' = Append(info_log, "Test has been ran successfully.")
    /\ Exit(0)
    /\ UNCHANGED <<cmpVars, detVars, possible_crops, current, prev, touched>>
    /\ UNCHANGED concVars
    /\ UNCHANGED <<sonarr_eventtype, radarr_eventtype, fs, show_database,
                   event_is, name, season, database_results, width, height,
                   already_croped, crop_cmd, error_log, stdout, calls>>

\* __main__, any other event: sonarr_main()
MainRun ==
    /\ pc = "main"
    /\ "Test" \notin {sonarr_eventtype, radarr_eventtype}
    /\ pc' = "sonarr_main"
    /\ UNCHANGED <<cmpVars, detVars, possible_crops, current, prev, touched>>
    /\ UNCHANGED concVars
    /\ UNCHANGED <<sonarr_eventtype, radarr_eventtype, fs, show_database,
                   event_is, name, season, database_results, width, height,
                   already_croped, crop_cmd, exit_status, error_log, info_log,
                   stdout, calls>>

\* a script that looks at the variable's value
SonarrBranch_env == sonarr_eventtype # "None"

\* `if "sonarr_eventtype":` tests a non-empty string literal, which is true
\* whatever the environment holds
SonarrBranch == TRUE

\* sonarr_main up to the path check: the tables and the environment are
\* read. The first branch reads the Sonarr fields and selects the rows of
\* the event; the branch under `elif "radarr_eventtype":` reads the Radarr
\* title and indexes TVDB.csv by a "Movie" column it does not have, which
\* raises KeyError
LoadEvent ==
    /\ pc = "sonarr_main"
    /\ \E db \in Tables :
          /\ show_database' = db
          /\ IF SonarrBranch
             THEN /\ event_is' = "Sonarr"
                  /\ \E key \in SonarrFields :
                        /\ name' = key[1]
                        /\ season' = key[2]
                        /\ database_results' = SelectRows(db, key[1], key[2])
                  /\ info_log' = Append(info_log, "New show added")
                  /\ pc' = "validate"
                  /\ UNCHANGED exit_status
             ELSE /\ event_is' = "Radarr"
                  /\ name' = "M"
                  /\ Exit(1)
                  /\ UNCHANGED <<season, database_results, info_log>>
    /\ UNCHANGED <<cmpVars, detVars, possible_crops, current, prev, touched>>
    /\ UNCHANGED concVars
    /\ UNCHANGED <<sonarr_eventtype, radarr_eventtype, fs, width, height,
                   already_croped, crop_cmd, error_log, stdout, calls>>

PathsExist_or == fs.dst # "missing" \/ fs.src # "missing"

\* os.path.exists(file_path) and os.path.exists(source_path)
PathsExist == fs.dst # "missing" /\ fs.src # "missing"

UseOverride_some == Len(database_results) >= 1

\* len(database_results) == 1
UseOverride == Len(database_results) = 1

\* the path check and the choice between the override and detection (the
\* debug entries are below the INFO level of the logs and are not written)
Validate ==
    /\ pc = "validate"
    /\ IF PathsExist
       THEN /\ pc' = IF UseOverride THEN "check_override" ELSE "detect"
            /\ UNCHANGED <<exit_status, error_log>>
       ELSE /\ error_log' = Append(error_log, "Unable to find specified file(s).")
            /\ Exit(1)
    /\ UNCHANGED <<cmpVars, detVars, possible_crops, current, prev, touched>>
    /\ UNCHANGED concVars
    /\ UNCHANGED <<sonarr_eventtype, radarr_eventtype, fs, show_database,
                   event_is, name, season, database_results, width, height,
                   already_croped, crop_cmd, info_log, stdout, calls>>

\* a script that passes the two paths to crop_video the other way round
CropVideoArgs_swapped == [source_path |-> "dst", destination_path |-> "src"]

\* crop_video(source_path, file_path, ...): the file each parameter of
\* crop_video names, "src" for sonarr_episodefile_sourcepath and "dst" for
\* sonarr_episodefile_path
CropVideoArgs == [source_path |-> "src", destination_path |-> "dst"]

\* get_crop_parameters(source_path) and check_video_resolution(source_path,
\* ...): ffmpeg -i and ffprobe read the file
DetectTouches == {<<"src", "read">>}
ProbeTouches == {<<"src", "read">>}
\* del "{destination_path}"
DeleteTouches == {<<CropVideoArgs.destination_path, "delete">>}
\* ffmpeg -y -i source_path ... destination_path
TranscodeTouches == {<<CropVideoArgs.source_path, "read">>,
                     <<CropVideoArgs.destination_path, "write">>}

\* every detection run (the lines ffmpeg reports, the status the pipeline
\* ends with) by its status and what get_crop_parameters makes of it
DetectRuns ==
    {[rc |-> rc, out |-> GetCropParameters(lines, rc)] :
        lines \in CandSeqs, rc \in RetCodes}

\* get_crop_parameters(source_path): wslpath, then the ffmpeg cropdetect
\* pipeline, which reports `lines` and ends with status rc
Detect ==
    /\ pc = "detect"
    /\ \E run \in DetectRuns :
          LET r == run.out
          IN /\ calls' = Append(calls, Call("detect", run.rc))
             /\ possible_crops' = r.crops
             /\ touched' = touched \cup DetectTouches
             /\ CASE r.kind = "exit" ->
                       /\ stdout' = Append(stdout, "cmd failed during get_crop_parameters")
                       /\ Exit(1)
                       /\ UNCHANGED <<width, height>>
                  [] r.kind = "raise" ->
                       /\ Exit(1)
                       /\ UNCHANGED <<width, height, stdout>>
                  [] r.kind = "return" ->
                       /\ width' = r.width
                       /\ height' = r.height
                       /\ pc' = "check_auto"
                       /\ UNCHANGED <<exit_status, stdout>>
    /\ UNCHANGED <<cmpVars, detVars, current, prev>>
    /\ UNCHANGED concVars
    /\ UNCHANGED <<sonarr_eventtype, radarr_eventtype, fs, show_database,
                   event_is, name, season, database_results, already_croped,
                   crop_cmd, error_log, info_log>>

\* the outcome of check_video_resolution(video_path, w, h) when ffprobe ends
\* with status rc having printed out: "exit" (status > 0: the warning call
\* passes an argument its message has no place for, so logging reports the
\* formatting error on stderr and writes no entry; exit(1)), "raise" (the
\* output cannot be read) or "return" with the comparison; current is the
\* pair current_width, current_height read from the output
CheckVideoResolution(w, h, rc, out) ==
    IF rc > 0 THEN [kind |-> "exit", current |-> <<>>, value |-> FALSE]
    ELSE IF out[1] # "size"
    THEN [kind |-> "raise", current |-> <<>>, value |-> FALSE]
    ELSE [kind |-> "return", current |-> out[2],
          value |-> isAcceptable(ToInt(w), ToInt(h), out[2][1], out[2][2],
                                 rel_tol)]

AfterCheck_crop(already) == "crop_delete"

\* a script that probes once more instead of cropping
AfterCheck_again(already) == IF already THEN "completed" ELSE "check_auto"

\* `if already_croped: ... else: crop_video(...)` and
\* `if not already_croped: crop_video(...)`: where the script goes next
AfterCheck(already) == IF already THEN "completed" ELSE "crop_delete"

\* the override branch: check_video_resolution with the row's Horizontal
\* and Vertical, then skip or crop_video with the same values
CheckOverride ==
    /\ pc = "check_override"
    /\ \E rc \in RetCodes, out \in ProbeOutputs :
          LET w == PyInt(database_results[1].Horizontal)
              h == PyInt(database_results[1].Vertical)
              r == CheckVideoResolution(w, h, rc, out)
          IN /\ calls' = Append(calls, Call("probe", rc))
             /\ current' = r.current
             /\ touched' = touched \cup ProbeTouches
             /\ IF r.kind # "return"
                THEN /\ Exit(1)
                     /\ UNCHANGED <<already_croped, width, height, info_log,
                                    stdout>>
                ELSE /\ already_croped' = <<r.value>>
                     /\ stdout' = Append(stdout, "already_croped:")
                     /\ UNCHANGED exit_status
                     /\ pc' = AfterCheck(r.value)
                     /\ IF r.value
                        THEN /\ info_log' = Append(info_log,
                                    "Video already in the specified resolution. Skipping...")
                             /\ UNCHANGED <<width, height>>
                        ELSE /\ info_log' = Append(info_log, "Begining crop video!")
                             /\ width' = w
                             /\ height' = h
    /\ UNCHANGED <<cmpVars, detVars, possible_crops, prev>>
    /\ UNCHANGED concVars
    /\ UNCHANGED <<sonarr_eventtype, radarr_eventtype, fs, show_database,
                   event_is, name, season, database_results, crop_cmd,
                   error_log>>

\* the detection branch: check_video_resolution with the detected width and
\* height, then crop_video unless the video is already cropped
CheckAuto ==
    /\ pc = "check_auto"
    /\ \E rc \in RetCodes, out \in ProbeOutputs :
          LET r == CheckVideoResolution(width, height, rc, out)
          IN /\ calls' = Append(calls, Call("probe", rc))
             /\ current' = r.current
             /\ touched' = touched \cup ProbeTouches
             /\ IF r.kind # "return"
                THEN /\ Exit(1)
                     /\ UNCHANGED already_croped
                ELSE /\ already_croped' = <<r.value>>
                     /\ pc' = AfterCheck(r.value)
                     /\ UNCHANGED exit_status
    /\ UNCHANGED <<cmpVars, detVars, possible_crops, prev>>
    /\ UNCHANGED concVars
    /\ UNCHANGED <<sonarr_eventtype, radarr_eventtype, fs, show_database,
                   event_is, name, season, database_results, width, height,
                   crop_cmd, error_log, info_log, stdout>>

DeleteFailed_nonzero(errorcode) == errorcode # 0

\* if errorcode > 0
DeleteFailed(errorcode) == errorcode > 0

\* crop_video, the delete: powershell del "destination_path". A del that
\* ends 0 removed the file, one that ends > 0 did not, one ended by a signal
\* may have done either
CropDelete ==
    /\ pc = "crop_delete"
    /\ \E rc \in RetCodes :
          /\ calls' = Append(calls, Call("delete", rc))
          /\ touched' = touched \cup DeleteTouches
          /\ LET path == CropVideoArgs.destination_path
             IN \E d \in (CASE rc = 0 -> {"missing"}
                            [] rc > 0 -> {fs[path]}
                            [] OTHER -> {fs[path], "missing"}) :
                   fs' = [fs EXCEPT ![path] = d]
          /\ IF DeleteFailed(rc)
             THEN /\ error_log' = Append(error_log, "Failed to delete existing file")
                  /\ Exit(1)
             ELSE /\ pc' = "crop_transcode"
                  /\ UNCHANGED <<exit_status, error_log>>
    /\ UNCHANGED <<cmpVars, detVars, possible_crops, current, prev>>
    /\ UNCHANGED concVars
    /\ UNCHANGED <<sonarr_eventtype, radarr_eventtype, show_database, event_is,
                   name, season, database_results, width, height,
                   already_croped, crop_cmd, info_log, stdout>>

CropFilter_swapped(w, h) == Format(h) \o <<Colon>> \o Format(w)

\* f"crop={width}:{height}"
CropFilter(w, h) == Format(w) \o <<Colon>> \o Format(h)

TranscodeFailed_nonzero(errcode) == errcode # 0

\* a crop_video that does not look at ffmpeg's status
TranscodeFailed_never(errcode) == FALSE

\* if errcode > 0
TranscodeFailed(errcode) == errcode > 0

\* crop_video, the transcode: ffmpeg -y -i source_path ... destination_path.
\* An ffmpeg that ends 0 wrote the cropped file; one that did not either
\* left the destination as it was or left part of a file there
CropTranscode ==
    /\ pc = "crop_transcode"
    /\ crop_cmd' = CropFilter(width, height)
    /\ \E rc \in RetCodes :
          /\ calls' = Append(calls, Call("transcode", rc))
          /\ touched' = touched \cup TranscodeTouches
          /\ LET path == CropVideoArgs.destination_path
             IN \E d \in (IF rc = 0 THEN {"cropped"}
                                      ELSE {fs[path], "partial"}) :
                   fs' = [fs EXCEPT ![path] = d]
          /\ IF TranscodeFailed(rc)
             THEN /\ error_log' = Append(error_log, "cmd failed during crop_video")
                  /\ Exit(1)
                  /\ UNCHANGED info_log
             ELSE /\ info_log' = Append(info_log, "successfully cropped")
                  /\ pc' = "completed"
                  /\ UNCHANGED <<exit_status, error_log>>
    /\ UNCHANGED <<cmpVars, detVars, possible_crops, current, prev>>
    /\ UNCHANGED concVars
    /\ UNCHANGED <<sonarr_eventtype, radarr_eventtype, show_database, event_is,
                   name, season, database_results, width, height,
                   already_croped, stdout>>

\* sonarr_main returned: "Completed script!" and the interpreter ends with 0
Completed ==
    /\ pc = "completed"
    /\ info_log' = Append(info_log, "Completed script!")
    /\ Exit(0)
    /\ UNCHANGED <<cmpVars, detVars, possible_crops, current, prev, touched>>
    /\ UNCHANGED concVars
    /\ UNCHANGED <<sonarr_eventtype, radarr_eventtype, fs, show_database,
                   event_is, name, season, database_results, width, height,
                   already_croped, crop_cmd, error_log, stdout, calls>>

Next ==
    \/ MainTest
    \/ MainRun
    \/ LoadEvent
    \/ Validate
    \/ Detect
    \/ CheckOverride
    \/ CheckAuto
    \/ CropDelete
    \/ CropTranscode
    \/ Completed

Spec == Init /\ [][Next]_vars

\* the script stopped before it began; the comparator runs on its own
InitCmp ==
    /\ sonarr_eventtype = "None"
    /\ radarr_eventtype = "None"
    /\ fs = [src |-> "present", dst |-> "original"]
    /\ show_database = <<>>
    /\ event_is = ""
    /\ name = ""
    /\ season = <<>>
    /\ database_results = <<>>
    /\ width = None
    /\ height = None
    /\ already_croped = <<>>
    /\ crop_cmd = <<>>
    /\ possible_crops = <<>>
    /\ current = <<>>
    /\ prev = <<>>
    /\ pc = "idle"
    /\ exit_status = <<>>
    /\ error_log = <<>>
    /\ info_log = <<>>
    /\ stdout = <<>>
    /\ calls = <<>>
    /\ touched = {}
    /\ ConcIdle
    /\ CmpInit
    /\ DetIdle

NextCmp ==
    \/ CmpCall
    \/ CmpSwapCall

SpecCmp == InitCmp /\ [][NextCmp]_vars

\* the script stopped before it began; the detector runs on its own
InitDet ==
    /\ sonarr_eventtype = "None"
    /\ radarr_eventtype = "None"
    /\ fs = [src |-> "present", dst |-> "original"]
    /\ show_database = <<>>
    /\ event_is = ""
    /\ name = ""
    /\ season = <<>>
    /\ database_results = <<>>
    /\ width = None
    /\ height = None
    /\ already_croped = <<>>
    /\ crop_cmd = <<>>
    /\ possible_crops = <<>>
    /\ current = <<>>
    /\ prev = <<>>
    /\ pc = "idle"
    /\ exit_status = <<>>
    /\ error_log = <<>>
    /\ info_log = <<>>
    /\ stdout = <<>>
    /\ calls = <<>>
    /\ touched = {}
    /\ ConcIdle
    /\ CmpIdle
    /\ DetInit

NextDet == DetCall

SpecDet == InitDet /\ [][NextDet]_vars

\* the hook is run again for the same item after an invocation that cropped
\* it: a new process, whose locals start afresh; the files, the environment
\* and the log files stay as they are
Reinvoke ==
    /\ pc = "exited"
    /\ prev = <<>>
    /\ exit_status = <<0>>
    /\ calls # <<>>
    /\ calls[Len(calls)] = Call("transcode", 0)
    /\ \A i \in 1..Len(calls) : calls[i].rc = 0
    /\ prev' = <<[show_database |-> show_database,
                  possible_crops |-> possible_crops, current |-> current,
                  calls |-> calls]>>
    /\ pc' = "main"
    /\ exit_status' = <<>>
    /\ show_database' = <<>>
    /\ event_is' = ""
    /\ name' = ""
    /\ season' = <<>>
    /\ database_results' = <<>>
    /\ width' = None
    /\ height' = None
    /\ already_croped' = <<>>
    /\ crop_cmd' = <<>>
    /\ possible_crops' = <<>>
    /\ current' = <<>>
    /\ stdout' = <<>>
    /\ calls' = <<>>
    /\ touched' = {}
    /\ UNCHANGED <<sonarr_eventtype, radarr_eventtype, fs, error_log, info_log>>
    /\ UNCHANGED <<cmpVars, detVars>>
    /\ UNCHANGED concVars

\* the second invocation is on the same item: the same TVDB.csv, and the
\* source file, which no step has changed, makes cropdetect and ffprobe
\* report what they reported before
SameItem ==
    \/ prev = <<>>
    \/ /\ show_database \in {<<>>, prev[1].show_database}
       /\ possible_crops \in {<<>>, prev[1].possible_crops}
       /\ current \in {<<>>, prev[1].current}

\* a step of the script, in the first invocation or in the second
RunStep == Next /\ SameItem'

NextRerun ==
    \/ RunStep
    \/ Reinvoke

SpecRerun == Init /\ [][NextRerun]_vars

---------------------------------------------------------------------------
(* Concurrent invocations: each has decided to crop and calls crop_video   *)
(* with the same destination_path                                          *)

\* the script stopped before it began; NumProcs invocations are about to
\* call crop_video, and the caller either lets them run freely or lets only
\* one crop per destination be in flight
InitConc ==
    /\ sonarr_eventtype = "None"
    /\ radarr_eventtype = "None"
    /\ fs = [src |-> "present", dst |-> "original"]
    /\ show_database = <<>>
    /\ event_is = ""
    /\ name = ""
    /\ season = <<>>
    /\ database_results = <<>>
    /\ width = None
    /\ height = None
    /\ already_croped = <<>>
    /\ crop_cmd = <<>>
    /\ possible_crops = <<>>
    /\ current = <<>>
    /\ prev = <<>>
    /\ pc = "idle"
    /\ exit_status = <<>>
    /\ error_log = <<>>
    /\ info_log = <<>>
    /\ stdout = <<>>
    /\ calls = <<>>
    /\ touched = {}
    /\ cv = [i \in Procs |-> [pc |-> "called", calls |-> <<>>]]
    /\ dest = [state |-> "original", by |-> 0]
    /\ one_in_flight \in BOOLEAN
    /\ hazard = {}
    /\ CmpIdle
    /\ DetIdle

\* invocation i is inside crop_video, which has not returned or exited
InFlight(i) == cv[i].pc \in {"crop_delete", "crop_transcode", "writing"}

\* invocation i's ffmpeg has opened the destination and has not ended
Writing(i) == cv[i].pc \in {"writing", "detached"}

\* invocation i's ffmpeg has ended
Wrote(i) ==
    \E k \in 1..Len(cv[i].calls) : cv[i].calls[k].tool = "transcode"

\* a crop_video that starts ffmpeg and returns without waiting for it
WaitsForTranscode_popen == FALSE

\* subprocess.run(crop_cmd, shell=True) returns when ffmpeg has ended
WaitsForTranscode == TRUE

\* crop_video is entered; where the caller lets only one crop be in
\* flight, it is entered only when no other invocation is inside it
CvEnter(i) ==
    /\ cv[i].pc = "called"
    /\ one_in_flight => \A j \in Procs \ {i} : ~InFlight(j)
    /\ cv' = [cv EXCEPT ![i].pc = "crop_delete"]
    /\ UNCHANGED <<dest, one_in_flight, hazard>>
    /\ UNCHANGED <<mainVars, cmpVars, detVars>>

\* del "destination_path": as in CropDelete, on the shared destination. A
\* del that removes a file another invocation's ffmpeg is writing, or has
\* written, is recorded
CvDelete(i) ==
    /\ cv[i].pc = "crop_delete"
    /\ \E rc \in RetCodes :
          /\ \E d \in (CASE rc = 0 -> {"missing"}
                         [] rc > 0 -> {dest.state}
                         [] OTHER -> {dest.state, "missing"}) :
                /\ dest' = IF d = "missing" THEN [state |-> "missing", by |-> 0]
                                            ELSE dest
                /\ hazard' =
                      IF d = "missing" /\ dest.state # "missing"
                      THEN hazard
                           \cup {[deleter |-> i, writer |-> j, phase |-> "writing"] :
                                     j \in {k \in Procs \ {i} : Writing(k)}}
                           \cup {[deleter |-> i, writer |-> j, phase |-> "finished"] :
                                     j \in {k \in Procs \ {i} : Wrote(k)}}
                      ELSE hazard
          /\ cv' = [cv EXCEPT ![i].calls = Append(@, Call("delete", rc)),
                              ![i].pc = IF DeleteFailed(rc) THEN "exited"
                                                           ELSE "crop_transcode"]
    /\ UNCHANGED one_in_flight
    /\ UNCHANGED <<mainVars, cmpVars, detVars>>

\* ffmpeg -y ... destination_path starts: it opens the destination for
\* writing, whatever is there
CvTranscodeStart(i) ==
    /\ cv[i].pc = "crop_transcode"
    /\ dest' = [state |-> "partial", by |-> i]
    /\ cv' = [cv EXCEPT ![i].pc = IF WaitsForTranscode THEN "writing"
                                                       ELSE "detached"]
    /\ UNCHANGED <<one_in_flight, hazard>>
    /\ UNCHANGED <<mainVars, cmpVars, detVars>>

\* ffmpeg ends with status rc: with 0 the file it was writing is complete,
\* if it is still the file at the destination; crop_video then exits or
\* returns as in CropTranscode
CvTranscodeEnd(i) ==
    /\ Writing(i)
    /\ \E rc \in RetCodes :
          /\ dest' = IF rc = 0 /\ dest = [state |-> "partial", by |-> i]
                     THEN [state |-> "cropped", by |-> i]
                     ELSE dest
          /\ cv' = [cv EXCEPT ![i].calls = Append(@, Call("transcode", rc)),
                              ![i].pc = IF cv[i].pc = "detached" THEN "returned"
                                        ELSE IF TranscodeFailed(rc) THEN "exited"
                                        ELSE "returned"]
    /\ UNCHANGED <<one_in_flight, hazard>>
    /\ UNCHANGED <<mainVars, cmpVars, detVars>>

NextConc ==
    \E i \in Procs :
        \/ CvEnter(i)
        \/ CvDelete(i)
        \/ CvTranscodeStart(i)
        \/ CvTranscodeEnd(i)

SpecConc == InitConc /\ [][NextConc]_vars

---------------------------------------------------------------------------
(* Properties of the Tolerance Comparator (checked under SpecCmp)          *)

CmpResult == cmp_out[Len(cmp_out)]
WidthWithin == cmp_tgt[1] - cmp_tol < cmp_cur[1] /\ cmp_cur[1] < cmp_tgt[1] + cmp_tol
HeightWithin == cmp_tgt[2] - cmp_tol < cmp_cur[2] /\ cmp_cur[2] < cmp_tgt[2] + cmp_tol

\* C1: for every current size, target and tolerance the comparator answers
\* True exactly when the width difference and the height difference are both
\* below the tolerance; one dimension within and the other not gives False.
C1_TrueIffBothWithin ==
    cmp_out # <<>> =>
        /\ CmpResult <=> (WidthWithin /\ HeightWithin)
        /\ (WidthWithin # HeightWithin) => ~CmpResult

C1_Witness ==
    /\ cmp_out # <<>>
    /\ cmp_tol > 0
    /\ WidthWithin
    /\ ~HeightWithin
    /\ ~CmpResult

\* C2: the comparison is strict: a difference equal to the tolerance on
\* either dimension is rejected, so tolerance 0 rejects every pair, equal
\* sizes included, while any tolerance of 1 or more accepts equal sizes.
C2_StrictAtBoundary ==
    cmp_out # <<>> =>
        /\ (\/ Abs(cmp_tgt[1] - cmp_cur[1]) = cmp_tol
            \/ Abs(cmp_tgt[2] - cmp_cur[2]) = cmp_tol) => ~CmpResult
        /\ cmp_tol = 0 => ~CmpResult
        /\ (cmp_tol >= 1 /\ cmp_cur = cmp_tgt) => CmpResult

C2_Witness ==
    /\ cmp_out # <<>>
    /\ cmp_tol = 0
    /\ cmp_cur = cmp_tgt
    /\ ~CmpResult

\* C3: the comparison is symmetric: exchanging current and target does not
\* change the answer.
C3_Symmetric == Len(cmp_out) = 2 => cmp_out[1] = cmp_out[2]

C3_Witness ==
    /\ Len(cmp_out) = 2
    /\ cmp_cur[1] < cmp_tgt[1]
    /\ cmp_cur[2] > cmp_tgt[2]
    /\ cmp_out[2]

---------------------------------------------------------------------------
(* Properties of the script (checked under Spec)                           *)

\* the rows of the table that match the event's title and season
Matches ==
    {i \in 1..Len(show_database) :
        /\ show_database[i].Series = name
        /\ show_database[i].Season = ParseInt(season)}

ToolsRun == {calls[i].tool : i \in 1..Len(calls)}
CallsOf(tool) == {i \in 1..Len(calls) : calls[i].tool = tool}

\* the script is past the path check, which both paths passed
TargetResolved ==
    /\ pc \notin {"main", "sonarr_main", "validate"}
    /\ ~(pc = "exited" /\ calls = <<>>)

\* the override rectangle is the target: the probe is the first tool run
UsedOverride ==
    pc = "check_override" \/ (calls # <<>> /\ calls[1].tool = "probe")

\* the target comes from detection: the detector is the first tool run
UsedDetection ==
    pc = "detect" \/ (calls # <<>> /\ calls[1].tool = "detect")

\* C4: once the paths have passed the check, the override rectangle is the
\* target exactly when one row of the table matches (title, season); with no
\* matching row or several the script goes on to automatic detection, and
\* the fallback itself ends nothing in error.
C4_OverrideIffOneMatch ==
    TargetResolved =>
        /\ UsedOverride <=> Cardinality(Matches) = 1
        /\ UsedDetection <=> Cardinality(Matches) # 1
        /\ (UsedOverride /\ width # None) =>
              \E i \in Matches :
                  /\ width = PyInt(show_database[i].Horizontal)
                  /\ height = PyInt(show_database[i].Vertical)
        /\ pc = "detect" => exit_status = <<>> /\ error_log = <<>>

C4_Witness ==
    /\ Cardinality(Matches) = 2
    /\ pc = "check_auto"
    /\ UsedDetection

\* the tools run before call i all ended with status 0
CleanBefore(i) == \A k \in 1..(i - 1) : calls[k].rc = 0

\* C5: the delete is a hard gate: whenever the delete ended with a status
\* other than 0, the invocation has ended in error and no transcode follows.
C5_DeleteGatesTranscode ==
    \A i \in CallsOf("delete") :
        (CleanBefore(i) /\ calls[i].rc # 0) =>
            /\ pc = "exited"
            /\ exit_status = <<1>>
            /\ "transcode" \notin ToolsRun

\* C6: success is reported only if the transcode ended with status 0: after
\* any other status, negative ones included, the invocation has ended in
\* error with an error-log entry and no "successfully cropped" entry.
C6_SuccessOnlyOnZero ==
    \A i \in CallsOf("transcode") :
        (CleanBefore(i) /\ calls[i].rc # 0) =>
            /\ pc = "exited"
            /\ exit_status = <<1>>
            /\ error_log # <<>>
            /\ \A k \in 1..Len(info_log) : info_log[k] # "successfully cropped"

\* C7: when the source or the destination is missing at the path check, the
\* step taken there ends the invocation with status 1 and a warning in the
\* error log, no tool having run; and nothing runs once the script has ended.
C7_MissingPathEnds ==
    [][/\ (pc = "validate" /\ (fs.src = "missing" \/ fs.dst = "missing")) =>
              /\ pc' = "exited"
              /\ exit_status' = <<1>>
              /\ error_log' = Append(error_log, "Unable to find specified file(s).")
              /\ calls' = <<>>
       /\ pc # "exited"]_vars

C7_Witness ==
    /\ pc = "exited"
    /\ fs.src = "present"
    /\ fs.dst = "missing"
    /\ exit_status = <<1>>
    /\ error_log = <<"Unable to find specified file(s).">>
    /\ calls = <<>>

\* C8: once the comparator has judged the source acceptable, under an
\* override or a detected target alike, neither delete nor transcode runs,
\* the destination stays as it was, and the script goes to its end with
\* exit status 0.
C8_AcceptableSkips ==
    already_croped = <<TRUE>> =>
        /\ "delete" \notin ToolsRun
        /\ "transcode" \notin ToolsRun
        /\ fs.dst = "original"
        /\ crop_cmd = <<>>
        /\ pc \in {"completed", "exited"}
        /\ pc = "completed" => ENABLED Completed
        /\ pc = "exited" => exit_status = <<0>>

C8_Witness ==
    /\ already_croped = <<TRUE>>
    /\ UsedDetection
    /\ pc = "exited"
    /\ exit_status = <<0>>
    /\ fs.dst = "original"

\* the invocation ended on the override branch with the source judged
\* outside the tolerance
OverrideCropEnded ==
    /\ pc = "exited"
    /\ UsedOverride
    /\ already_croped = <<FALSE>>

OverrideFilter ==
    Str(database_results[1].Horizontal) \o <<Colon>>
        \o Str(database_results[1].Vertical)

\* C9 as claimed: with an override and the source outside the tolerance
\* (the probe having ended with status 0) the invocation runs exactly one
\* delete and then exactly one transcode, whose crop is the override's
\* Horizontal:Vertical, and a transcode that ended with status 0 leaves one
\* file at the destination.
C9_OneDeleteOneTranscode ==
    (OverrideCropEnded /\ calls[1].rc = 0) =>
        /\ Cardinality(CallsOf("delete")) = 1
        /\ Cardinality(CallsOf("transcode")) = 1
        /\ \A i \in CallsOf("delete"), j \in CallsOf("transcode") : i < j
        /\ crop_cmd = OverrideFilter
        /\ calls[Len(calls)].rc = 0 => fs.dst # "missing"

\* C9 amended: with an override and the source outside the tolerance the
\* invocation runs exactly one delete; if the delete ended with a status
\* above 0 the invocation ends in error without a transcode, otherwise
\* exactly one transcode follows the delete, its crop is the override's
\* Horizontal:Vertical, and if it ended with status 0 exactly one file, the
\* cropped one, is at the destination.
C9_OneDeleteThenGatedTranscode ==
    OverrideCropEnded =>
        /\ Cardinality(CallsOf("delete")) = 1
        /\ \A i \in CallsOf("delete") :
              IF calls[i].rc > 0
              THEN /\ CallsOf("transcode") = {}
                   /\ exit_status = <<1>>
                   /\ crop_cmd = <<>>
              ELSE /\ CallsOf("transcode") = {i + 1}
                   /\ crop_cmd = OverrideFilter
                   /\ calls[i + 1].rc = 0 =>
                         fs.dst = "cropped" /\ exit_status = <<0>>

C9_Witness ==
    /\ OverrideCropEnded
    /\ exit_status = <<0>>
    /\ Len(calls) = 3
    /\ calls[2] = Call("delete", 0)
    /\ calls[3] = Call("transcode", 0)
    /\ database_results[1].Horizontal # database_results[1].Vertical
    /\ fs.dst = "cropped"

---------------------------------------------------------------------------
(* Properties of the Crop Detector (checked under SpecDet)                 *)

\* the candidates reported most often
MostReported ==
    {l \in {det_lines[i] : i \in 1..Len(det_lines)} :
        \A j \in 1..Len(det_lines) :
            Count(det_lines, det_lines[j]) <= Count(det_lines, l)}

\* the detector returned the size of candidate l
Returned(l) ==
    /\ det_out[1].kind = "return"
    /\ \E r \in Rects :
          /\ l = CropLine(r[1], r[2], (Full - r[1]) \div 2, (Full - r[2]) \div 2)
          /\ det_out[1].width = PyStr(Str(r[1]))
          /\ det_out[1].height = PyStr(Str(r[2]))

\* the detector was applied to a run that reported something and did not
\* end with a failure status
Detected == det_out # <<>> /\ det_lines # <<>> /\ ~(det_rc > 0)

\* C10 as claimed: the detector (its run having ended with status 0)
\* returns the size of the candidate reported most often and, among several
\* reported equally often, of the one that was reported last.
C10_MostReportedLastWins ==
    (Detected /\ det_rc = 0) =>
        LET last == CHOOSE i \in 1..Len(det_lines) :
                        /\ det_lines[i] \in MostReported
                        /\ \A j \in (i + 1)..Len(det_lines) :
                              det_lines[j] \notin MostReported
        IN Returned(det_lines[last])

\* C10 amended: the detector returns the size of the candidate reported
\* most often and, among several reported equally often, of the one whose
\* line is greatest in byte order, wherever in the run it was reported.
C10_MostReportedGreatestWins ==
    Detected =>
        \E l \in MostReported :
            /\ \A m \in MostReported : m = l \/ LexLess(m, l)
            /\ Returned(l)

C10_Witness ==
    /\ Detected
    /\ Cardinality(MostReported) >= 2
    /\ ~Returned(det_lines[Len(det_lines)])
    /\ Returned(det_lines[1])

---------------------------------------------------------------------------
(* Failures and exit status (checked under Spec)                           *)

\* C11: when the detection run gets past its status check and yields no
\* crop line, the invocation is over with a non-zero exit status, detection
\* is the last tool run, and no comparison result, delete or transcode
\* follows
C11_EmptyDetectionEnds ==
    \A i \in CallsOf("detect") :
        (~(calls[i].rc > 0) /\ possible_crops = <<>>) =>
            /\ pc = "exited"
            /\ exit_status # <<0>>
            /\ exit_status # <<>>
            /\ Len(calls) = i
            /\ already_croped = <<>>
            /\ ToolsRun \cap {"probe", "delete", "transcode"} = {}
            /\ crop_cmd = <<>>

C11_Witness ==
    /\ pc = "exited"
    /\ calls = <<Call("detect", 0)>>
    /\ possible_crops = <<>>
    /\ exit_status = <<1>>

\* how an invocation can end well: a Test event that ran no tool, a video
\* already at the target resolution, or a crop whose transcode ended with 0;
\* the last two with every tool before them ended with 0 as well
TestNoOp == "Test" \in {sonarr_eventtype, radarr_eventtype} /\ calls = <<>>
AllToolsEndedZero == \A i \in 1..Len(calls) : calls[i].rc = 0
CropSucceeded == calls # <<>> /\ calls[Len(calls)] = Call("transcode", 0)
EndedWell ==
    \/ TestNoOp
    \/ AllToolsEndedZero /\ (already_croped = <<TRUE>> \/ CropSucceeded)

\* C12: at the end of an invocation the exit status is 0 exactly when the
\* invocation was a Test event, found the video already at the target
\* resolution, or cropped it, with no tool having failed; in every other
\* case (missing path, failed probe, detection, delete or transcode) it is
\* not 0
C12_ExitZeroIffEndedWell ==
    pc = "exited" => (exit_status = <<0>> <=> EndedWell)

\* C13: a tool that ends with a failure status of its own (> 0) is the last
\* tool of the invocation (nothing is retried, nothing follows), the
\* invocation is over with a non-zero exit status, and the error log has
\* received an entry
C13_FailureExitsAndWarns ==
    \A i \in 1..Len(calls) :
        calls[i].rc > 0 =>
            /\ i = Len(calls)
            /\ pc = "exited"
            /\ exit_status = <<1>>
            /\ error_log # <<>>

---------------------------------------------------------------------------
(* Repeated invocations (checked under SpecRerun)                          *)

\* C14: in an invocation that follows a successful crop of the same item
\* (every tool of both invocations ending with 0), neither the delete nor
\* the transcode is run, and the destination stays the cropped file
C14_SecondRunDoesNotCrop ==
    (prev # <<>> /\ AllToolsEndedZero) =>
        /\ ToolsRun \cap {"delete", "transcode"} = {}
        /\ fs.dst = "cropped"

---------------------------------------------------------------------------
(* The order of the steps (checked under Spec)                             *)

\* the place of each position of the script in the pass: the path check,
\* then the target (the override row or detection), the probe, the delete,
\* the transcode, the end
StepRank ==
    [p \in {"main", "sonarr_main", "validate", "detect", "check_override",
            "check_auto", "crop_delete", "crop_transcode", "completed",
            "exited"} |->
        CASE p = "main" -> 0
          [] p = "sonarr_main" -> 1
          [] p = "validate" -> 2
          [] p = "detect" -> 3
          [] p \in {"check_override", "check_auto"} -> 4
          [] p = "crop_delete" -> 5
          [] p = "crop_transcode" -> 6
          [] p = "completed" -> 7
          [] OTHER -> 8]

\* the tool each position runs
ToolAt ==
    [p \in {"detect", "check_override", "check_auto", "crop_delete",
            "crop_transcode"} |->
        CASE p = "detect" -> "detect"
          [] p \in {"check_override", "check_auto"} -> "probe"
          [] p = "crop_delete" -> "delete"
          [] OTHER -> "transcode"]

\* C15: every step of an invocation moves forward in the order path check,
\* target, probe, delete, transcode, end; a step runs at most the one tool
\* of its position, which has not run before; and no step is taken once the
\* invocation has ended (in error or not). (The rows of the table are
\* selected while the event is read; whether they or detection give the
\* target is decided after the path check.)
C15_LinearSinglePass ==
    [][/\ pc # "exited"
       /\ StepRank[pc'] > StepRank[pc]
       /\ \/ calls' = calls
          \/ /\ pc \in DOMAIN ToolAt
             /\ Len(calls') = Len(calls) + 1
             /\ SubSeq(calls', 1, Len(calls)) = calls
             /\ calls'[Len(calls')].tool = ToolAt[pc]
             /\ ToolAt[pc] \notin ToolsRun
       /\ pc \in DOMAIN ToolAt => calls' # calls]_vars

C15_Witness ==
    /\ pc = "exited"
    /\ calls = <<Call("detect", 0), Call("probe", 0), Call("delete", 0),
                 Call("transcode", 0)>>

---------------------------------------------------------------------------
(* When the detector runs (checked under Spec)                             *)

\* both paths were there at the path check: the source, which stays, and
\* the destination, which is there still or has been deleted or written
\* by crop_video since
PathsExisted ==
    /\ fs.src = "present"
    /\ fs.dst # "missing" \/ ToolsRun \cap {"delete", "transcode"} # {}

\* C16: once sonarr_main has chosen its branch, the detector has been run
\* exactly when both paths were there and the table does not hold exactly
\* one row for (title, season); with exactly one row the detector is not
\* run, the comparison is against that row's Horizontal x Vertical, and so
\* is the crop
C16_DetectorIffNoOverride ==
    (event_is # "" /\ pc \notin {"sonarr_main", "validate", "detect"}) =>
        /\ "detect" \in ToolsRun <=>
              (PathsExisted /\ Cardinality(Matches) # 1)
        /\ Cardinality(Matches) = 1 =>
              \E i \in Matches :
                 /\ "detect" \notin ToolsRun
                 /\ already_croped # <<>> =>
                       already_croped[1] =
                          (/\ Abs(show_database[i].Horizontal - current[1]) < rel_tol
                           /\ Abs(show_database[i].Vertical - current[2]) < rel_tol)
                 /\ crop_cmd # <<>> =>
                       crop_cmd = Str(show_database[i].Horizontal) \o <<Colon>>
                                     \o Str(show_database[i].Vertical)

C16_Witness ==
    /\ pc = "exited"
    /\ Cardinality(Matches) = 1
    /\ Len(show_database) = 2
    /\ calls = <<Call("probe", 0), Call("delete", 0), Call("transcode", 0)>>
    /\ already_croped = <<FALSE>>
    /\ crop_cmd = OverrideFilter

---------------------------------------------------------------------------
(* After a failed transcode (checked under Spec)                           *)

\* C17: when the delete ended with 0 and the transcode with a failure
\* status, the transcode is the last thing the invocation does: it is over
\* with exit status 1 and the destination is missing or a partial file,
\* never the original or a cropped one. The witness is the state the claim
\* says is reachable: the destination missing at the end
C17_FailedTranscodeNotRestored ==
    \A i \in CallsOf("transcode") :
        (calls[i].rc > 0 /\ calls[i - 1] = Call("delete", 0)) =>
            /\ i = Len(calls)
            /\ pc = "exited"
            /\ exit_status = <<1>>
            /\ fs.dst \in {"missing", "partial"}

C17_Witness ==
    /\ pc = "exited"
    /\ exit_status = <<1>>
    /\ Len(calls) >= 2
    /\ calls[Len(calls) - 1] = Call("delete", 0)
    /\ calls[Len(calls)] = Call("transcode", 1)
    /\ fs.dst = "missing"

---------------------------------------------------------------------------
(* The branch on the event type (checked under Spec)                       *)

\* C18: whatever the two event-type variables hold, once sonarr_main has
\* read the event it is in the Sonarr branch: event_is is "Sonarr", the
\* entry logged is the show's, and the title and season are the Sonarr
\* fields (those of the event when Sonarr set them, unset otherwise); no
\* state has event_is = "Radarr"
C18_AlwaysSonarrBranch ==
    /\ event_is \in {"", "Sonarr"}
    /\ (pc \notin {"main", "sonarr_main"}
          /\ "Test" \notin {sonarr_eventtype, radarr_eventtype}) =>
            /\ event_is = "Sonarr"
            /\ info_log # <<>>
            /\ info_log[1] = "New show added"
            /\ <<name, season>> \in
                  (IF sonarr_eventtype = "None" THEN {UnsetKey} ELSE EventKeys)

C18_Witness ==
    /\ sonarr_eventtype = "None"
    /\ radarr_eventtype = "Download"
    /\ pc = "exited"
    /\ event_is = "Sonarr"
    /\ <<name, season>> = UnsetKey
    /\ calls # <<>>

---------------------------------------------------------------------------
(* What happens to the source path (checked under Spec)                    *)

\* C20: whatever the outcome, the source path is only ever read (by
\* detection, the probe and the transcode), every delete and every write
\* is on the destination path, and the source file that passed the path
\* check is still there
C20_SourceOnlyRead ==
    /\ \A t \in touched : t[1] = "src" => t[2] = "read"
    /\ \A t \in touched : t[2] \in {"delete", "write"} => t[1] = "dst"
    /\ ToolsRun \cap {"detect", "probe", "transcode"} # {} =>
          <<"src", "read">> \in touched
    /\ calls # <<>> => fs.src = "present"

C20_Witness ==
    /\ pc = "exited"
    /\ exit_status = <<1>>
    /\ calls = <<Call("detect", 0), Call("probe", 0), Call("delete", 0),
                 Call("transcode", 1)>>
    /\ touched = {<<"src", "read">>, <<"dst", "delete">>, <<"dst", "write">>}
    /\ fs = [src |-> "present", dst |-> "partial"]

---------------------------------------------------------------------------
(* Concurrent invocations on one destination (checked under SpecConc)      *)

\* every tool invocation i has run so far ended with 0
CvClean(i) == \A k \in 1..Len(cv[i].calls) : cv[i].calls[k].rc = 0

\* C19 as claimed: where the caller lets only one crop per destination be
\* in flight, no invocation's delete removes the destination after another
\* invocation has started or finished writing its output there (every tool
\* of the two having ended with 0)
C19_NoDeleteAfterOtherWrote ==
    one_in_flight =>
        \A h \in hazard : ~(CvClean(h.writer) /\ CvClean(h.deleter))

\* C19: where the caller lets only one crop per destination be in flight,
\* no invocation's delete removes the destination while another
\* invocation's transcode is writing it; run freely, the invocations reach
\* such a state (the witness)
C19_NoDeleteWhileOtherWrites ==
    one_in_flight => \A h \in hazard : h.phase # "writing"

C19_Witness ==
    /\ ~one_in_flight
    /\ \E h \in hazard :
          /\ h.phase = "writing"
          /\ cv[h.writer].pc = "returned"
          /\ cv[h.writer].calls = <<Call("delete", 0), Call("transcode", 0)>>
          /\ dest.state = "missing"

===========================================================================
